---- MODULE Spec2Model ----
(***************************************************************************)
(* Credential lifecycle of the WHOOP MCP server: the token file            *)
(* (src/src/auth/token-store.ts), the OAuth client                         *)
(* (src/src/auth/whoop-oauth.ts), the authenticated API client             *)
(* (src/src/whoop/client.ts) and the login / callback routes               *)
(* (src/unnamed/part_000).  Node runs the handlers on one thread; every    *)
(* await on file or network I/O is a suspension point, so each action      *)
(* below is the stretch of code between two such awaits.                   *)
(***************************************************************************)
EXTENDS Integers, Sequences, FiniteSets, TLC

\* ------------------------------------------------------------- bounds
NumProcs == 2          \* API calls and callback requests made in one behaviour
MaxStates == 2         \* states issued by the login route
MaxTicks == 1          \* clock advances
TickMs == 30000        \* milliseconds per clock advance
MaxTransports == 2     \* transports constructed by POST /sse in one behaviour
NumSlots == 2          \* requests on /sse in progress at the same time
MaxRecords == 2        \* records in one list returned by the WHOOP API

\* ---------------------------------------------------------- constants
BUFFER_MS == 60000     \* whoop-oauth.ts:116, "subtract 60s as buffer"
MS_PER_SECOND == 1000  \* whoop-oauth.ts:116, expires_in * 1000

\* Account keys are caller-supplied strings (part_000:73, 159).  "__proto__"
\* names the prototype accessor every plain JS object inherits.
Keys == {"default", "user123", "__proto__"}
Procs == 1..NumProcs
StateIds == 1..MaxStates
ExpiresInValues == {30, 90}
Scopes == {"read:sleep", "read:sleep read:cycles"}
\* The login requests made: /oauth/whoop/login and
\* /oauth/whoop/login?key=user123&next=/done
LoginRequests == {[key |-> "default", next |-> ""],
                  [key |-> "user123", next |-> "/done"]}

\* JS null (TokenSet | null) and a field the provider left out (undefined).
Null == [accessToken |-> "null", refreshToken |-> "null", expiresAt |-> 0,
         scope |-> "null", tokenType |-> "null"]
Undefined == "undefined"
NoData == [ok |-> FALSE, access_token |-> Undefined, refresh_token |-> Undefined,
           expires_in |-> 0, scope |-> Undefined, token_type |-> Undefined]
NoEntry == [key |-> "", successRedirect |-> ""]
EmptyContents == [k \in {} |-> Null]
\* Object.prototype, which contents["__proto__"] evaluates to when the parsed
\* document has no own property of that name: an object none of whose TokenSet
\* fields is defined.
ObjectPrototype == [accessToken |-> Undefined, refreshToken |-> Undefined,
                    expiresAt |-> 0, scope |-> Undefined, tokenType |-> Undefined]

VARIABLES
    now,            \* Date.now(), epoch milliseconds
    tokenFile,      \* the JSON document at absolutePath: account key -> TokenSet
    pendingStates,  \* part_000:21, state -> {key, successRedirect}
    nextState,      \* states handed out so far by crypto.randomUUID()
    issued,         \* token responses the provider has produced so far
    procs,          \* the requests: not yet made, in progress, or answered
    declared,       \* access token -> the expiry the provider declared for it
    committed       \* account key -> the record of the last set on it to complete

\* The session multiplexer (part_000:214-299).
VARIABLES
    apiKey,         \* config.mcp.apiKey (MCP_API_KEY), fixed at startup
    transports,     \* part_000:214, session id -> transport
    conns,          \* the transports constructed so far and how far each has got
    reqs            \* the requests on /sse: in progress, or the last answer given

\* The token store on its own (token-store.ts, part_001), one call at a time.
VARIABLES
    backend,        \* part_001:156-164, "file" or "remote", chosen in the constructor
    dirMode,        \* what mkdir and writeFile meet at the configured directory
    absolutePath,   \* token-store.ts:19, the location reads and writes use
    disk,           \* location -> the JSON document there, if any
    keyPrefix,      \* part_001:102, the prefix of the remote table's keys
    rows,           \* the remote table: mapped key -> token
    lastOp          \* the last call made on the store and how it ended

\* Today's metrics (src/src/whoop/metrics.ts:86-119), from the two lists on.
VARIABLES
    sleepRecords,   \* metrics.ts:92, sleepResponse.records
    cycleRecords,   \* metrics.ts:93, cycleResponse.records
    reference,      \* metrics.ts:96, new Date() at the call, epoch seconds
    sleepRecord,    \* metrics.ts:97, the record chosen from the sleep list
    cycleRecord,    \* metrics.ts:98, the record chosen from the cycle list
    metrics         \* metrics.ts:107-118, the TodayMetrics returned, if any

credVars == <<now, tokenFile, pendingStates, nextState, issued, procs, declared, committed>>
sessVars == <<apiKey, transports, conns, reqs>>
storeVars == <<backend, dirMode, absolutePath, disk, keyPrefix, rows, lastOp>>
metVars == <<sleepRecords, cycleRecords, reference, sleepRecord, cycleRecord, metrics>>
vars == <<now, tokenFile, pendingStates, nextState, issued, procs, declared, committed,
          apiKey, transports, conns, reqs,
          backend, dirMode, absolutePath, disk, keyPrefix, rows, lastOp,
          sleepRecords, cycleRecords, reference, sleepRecord, cycleRecord, metrics>>

\* A handler's locals hold a value only while the code still reads it.
Idle == [op |-> "idle", pc |-> "idle", key |-> "", code |-> FALSE, state |-> 0,
         entry |-> NoEntry,
         existing |-> Null, data |-> NoData, tokenSet |-> Null,
         contents |-> EmptyContents, normAt |-> 0, bearer |-> "", posts |-> 0,
         result |-> "", overlap |-> FALSE]

\* What is left of a handler once it has answered.
Answered(h, res) ==
    [Idle EXCEPT !.op = h.op, !.pc = "done", !.key = h.key, !.state = h.state,
                 !.bearer = h.bearer, !.posts = h.posts, !.overlap = h.overlap,
                 !.tokenSet = h.tokenSet, !.result = res]

\* ------------------------------------------------------- pure helpers

\* A handler that answers a rejected token request by sending it again.
sendAgain(h, res) == [h EXCEPT !.posts = @ + 1]

\* whoop-oauth.ts:76-80, 103-107: a rejected axios.post is not caught in
\* exchangeCode or refreshToken, nor in getAccessToken or request
\* (client.ts:21-45); it ends the call.
rejected(h, res) == Answered(h, res)

\* A lookup that takes a state it does not know for the default account's.
getOrDefaultEntry(registry, state) ==
    IF state \in DOMAIN registry THEN registry[state]
    ELSE [key |-> "default", successRedirect |-> ""]

\* part_000:181  pendingStates.get(state); NoEntry stands for undefined
getEntry(registry, state) ==
    IF state \in DOMAIN registry THEN registry[state] ELSE NoEntry

\* part_000:177, 183, 191-197: the status the callback route answers with.
callbackStatus(result) ==
    CASE result \in {"MissingCodeOrState", "UnknownState"} -> 400
      [] result = "ExchangeFailed" -> 500
      [] result = "redirect" -> 302
      [] result = "ok" -> 200
      [] OTHER -> 0

\* part_000:189  pendingStates.delete(state)
deleteState(registry, state) == [s \in DOMAIN registry \ {state} |-> registry[s]]

\* A callback that gives up its state when the exchange has failed.
deleteOnFailure(registry, state) == deleteState(registry, state)

\* part_000:195-198: the catch of the callback route answers 500 and does
\* nothing to the registry.
exchangeFailed(registry, state) == registry

\* The class of the error object a call ends with.  axios.post
\* (whoop-oauth.ts:76, 103) and http.request (client.ts:37) reject with an
\* AxiosError; the two throw statements (client.ts:24, whoop-oauth.ts:91) make
\* a plain Error.  Nothing between them and the tool handler wraps either.
thrown(result) ==
    CASE result \in {"RefreshFailed", "HttpFailed", "ExchangeFailed"} -> "AxiosError"
      [] result \in {"NoWhoopToken", "NoStoredRefreshToken"} -> "Error"
      [] OTHER -> "none"

\* part_000:99-102, 150-153: the tool handler catches whatever the call threw,
\* takes parseHttpError's message (part_000:312-333) and throws a plain Error
\* made from it.
toolError(error) == IF error = "none" THEN "none" ELSE "Error"

\* A lookup that falls back to the "default" account when the key is absent.
LookupOrDefault(contents, key) ==
    IF key \in DOMAIN contents THEN contents[key]
    ELSE IF "default" \in DOMAIN contents THEN contents["default"] ELSE Null

\* token-store.ts:61-64  contents[key] ?? null.  contents is a plain object
\* (JSON.parse(raw) or {}), so a key that is not an own property is looked up
\* on Object.prototype: "__proto__" yields the prototype object, not undefined.
Lookup(contents, key) ==
    IF key \in DOMAIN contents THEN contents[key]
    ELSE IF key = "__proto__" THEN ObjectPrototype
    ELSE Null

\* A set that writes a document holding the new record alone.
assignAlone(contents, key, tokenSet) == [k \in {key} |-> tokenSet]

\* token-store.ts:68  contents[key] = tokenSet.  The mapping holds the own
\* enumerable properties, which is what JSON.stringify writes
\* (token-store.ts:58); assigning to "__proto__" runs the inherited setter,
\* which replaces the object's prototype and adds no own property.
Assign(contents, key, tokenSet) ==
    IF key = "__proto__" /\ key \notin DOMAIN contents THEN contents
    ELSE [k \in DOMAIN contents \cup {key} |-> IF k = key THEN tokenSet ELSE contents[k]]

\* whoop-oauth.ts:119  a ?? b
Coalesce(a, b) == IF a = Undefined THEN b ELSE a

\* Normalization that stores the provider's raw expiry, without the buffer.
normalizeRawExpiry(data, previous, t) ==
    [accessToken |-> data.access_token,
     refreshToken |-> Coalesce(data.refresh_token,
                               Coalesce(IF previous = Null THEN Undefined
                                        ELSE previous.refreshToken, "")),
     expiresAt |-> t + data.expires_in * MS_PER_SECOND,
     scope |-> data.scope,
     tokenType |-> data.token_type]

\* Normalization that adds expires_in as if it were already milliseconds.
normalizeSecondsAsMillis(data, previous, t) ==
    [accessToken |-> data.access_token,
     refreshToken |-> Coalesce(data.refresh_token,
                               Coalesce(IF previous = Null THEN Undefined
                                        ELSE previous.refreshToken, "")),
     expiresAt |-> t + data.expires_in - BUFFER_MS,
     scope |-> data.scope,
     tokenType |-> data.token_type]

\* Normalization that ignores the previous record's refresh token.
normalizeDropPrevious(data, previous, t) ==
    [accessToken |-> data.access_token,
     refreshToken |-> Coalesce(data.refresh_token, ""),
     expiresAt |-> t + data.expires_in * MS_PER_SECOND - BUFFER_MS,
     scope |-> data.scope,
     tokenType |-> data.token_type]

\* whoop-oauth.ts:115-124  (t is Date.now() at the call)
normalizeTokenResponse(data, previous, t) ==
    [accessToken |-> data.access_token,
     refreshToken |-> Coalesce(data.refresh_token,
                               Coalesce(IF previous = Null THEN Undefined
                                        ELSE previous.refreshToken, "")),
     expiresAt |-> t + data.expires_in * MS_PER_SECOND - BUFFER_MS,
     scope |-> data.scope,
     tokenType |-> data.token_type]

\* An expiry test that takes the 60 s buffer off a second time.
isExpiredWithBuffer(token, t) == token.expiresAt <= t + BUFFER_MS

\* client.ts:27  token.expiresAt <= Date.now(); undefined <= n is false.
isExpired(token, t) == token # ObjectPrototype /\ token.expiresAt <= t

\* The token endpoint's answers to the next POST: a failure, or a fresh token
\* pair with or without a refresh_token field.
TokenResponses ==
    {NoData} \cup
    { [ok |-> TRUE,
       access_token |-> "A" \o ToString(issued + 1),
       refresh_token |-> r,
       expires_in |-> e,
       scope |-> s,
       token_type |-> "Bearer"] :
        r \in {Undefined, "R" \o ToString(issued + 1)},
        e \in ExpiresInValues,
        s \in Scopes }

\* The token file outlives the process: at start it is missing (read as {}),
\* or holds what an earlier run's exchangeCode committed under "default".
PriorData == [ok |-> TRUE, access_token |-> "A0", refresh_token |-> "R0",
              expires_in |-> 90, scope |-> "read:sleep", token_type |-> "Bearer"]
PriorTimes == {0 - TickMs, 0}
NoDeclared == [a \in {} |-> 0]
Declare(d, data, t) ==
    [a \in DOMAIN d \cup {data.access_token} |->
        IF a = data.access_token THEN t + data.expires_in * MS_PER_SECOND ELSE d[a]]

\* ----------------------------------------------- sessions: values and start

Transports == 1..MaxTransports
Slots == 1..NumSlots
\* The mcp-session-id header: 0 when the request carries none, an id in the
\* session map, or one that randomUUID never hands out.
ForgedSession == MaxTransports + 1
SessionHeaders == {0, ForgedSession} \cup DOMAIN transports

\* The Authorization and x-api-key headers of a request (part_000:34-37).
NoApiKeyHeaders == [authorization |-> Undefined, xApiKey |-> Undefined]
ApiKeyHeaders ==
    {NoApiKeyHeaders,
     [authorization |-> "Bearer secret", xApiKey |-> Undefined],
     [authorization |-> Undefined, xApiKey |-> "secret"],
     [authorization |-> "wrong", xApiKey |-> "secret"]}
\* MCP_API_KEY: not set, or set.
ApiKeyConfigs == {Undefined, "secret"}

NoRequest == [pc |-> "idle", method |-> "", headers |-> NoApiKeyHeaders,
              provided |-> Undefined, sid |-> 0,
              init |-> FALSE, transport |-> 0, status |-> 0]
NoTransports == [s \in {} |-> 0]

\* part_000:214: the session map is empty and no transport exists at startup.
SessionsAtStart ==
    /\ transports = NoTransports
    /\ conns = [t \in Transports |-> "none"]
    /\ reqs = [r \in Slots |-> NoRequest]

\* -------------------------------------------------- store: values and start

\* The configured token file and the one in os.tmpdir()/whoop-tokens.
Locations == {"configured", "fallback"}
\* A file is missing, holds a JSON document, or cannot be read or parsed.
MissingFile == [kind |-> "missing", contents |-> EmptyContents]
NoRows == [k \in {} |-> Null]
NoOp == [op |-> "none", key |-> "", arg |-> Null, error |-> "", result |-> Null,
         posts |-> 0, bearer |-> ""]

\* token-store.ts:21-23, part_001:150-165: a store that has not been used.
StoreAtStart ==
    /\ absolutePath = "configured"
    /\ lastOp = NoOp

\* ------------------------------------------------ metrics: values and start

\* A value that may be missing (undefined, null, NaN) is Absent or Present(v).
Absent == << >>
Present(v) == <<v>>
NotAsked == [asked |-> FALSE,
             sleep_hours |-> Absent, sleep_score |-> Absent,
             light_sleep_hours |-> Absent, deep_sleep_hours |-> Absent,
             rem_sleep_hours |-> Absent, strain |-> Absent, calories |-> Absent,
             cycle_id |-> Absent, sleep_id |-> Absent]

\* No call of getTodayMetrics has been made.
MetricsAtRest ==
    /\ sleepRecords = << >>
    /\ cycleRecords = << >>
    /\ reference = 0
    /\ sleepRecord = Absent
    /\ cycleRecord = Absent
    /\ metrics = NotAsked

\* The credential flow does not depend on the variables of the sections
\* above; it starts with them at rest and leaves them alone.
OthersAtRest ==
    /\ MetricsAtRest
    /\ apiKey = Undefined
    /\ SessionsAtStart
    /\ backend = "file"
    /\ dirMode = "writable"
    /\ disk = [l \in Locations |-> MissingFile]
    /\ keyPrefix = Undefined
    /\ rows = NoRows
    /\ StoreAtStart

Init ==
    /\ OthersAtRest
    /\ now = 0
    /\ \/ tokenFile = EmptyContents /\ declared = NoDeclared
       \/ \E t \in PriorTimes :
            /\ tokenFile = Assign(EmptyContents, "default",
                                  normalizeTokenResponse(PriorData, Null, t))
            /\ declared = Declare(NoDeclared, PriorData, t)
    /\ committed = [k \in Keys |-> Lookup(tokenFile, k)]
    /\ pendingStates = [s \in {} |-> NoEntry]
    /\ nextState = 1
    /\ issued = 0
    /\ procs = [p \in Procs |-> Idle]

\* Other handlers working on the same account key are marked as overlapping.
MarkOverlap(ps, p, k) ==
    LET busy == {q \in Procs \ {p} : ps[q].op # "idle" /\ ps[q].key = k}
    IN [q \in Procs |->
          IF q = p THEN [ps[q] EXCEPT !.overlap = (busy # {})]
          ELSE IF q \in busy THEN [ps[q] EXCEPT !.overlap = TRUE]
          ELSE ps[q]]

\* Requests are anonymous: the next one made is the lowest not yet made.
IdleProcs == {p \in Procs : procs[p].op = "idle"}
Lowest(S) == CHOOSE p \in S : \A q \in S : p <= q
FirstIdle == IF IdleProcs = {} THEN 0 ELSE Lowest(IdleProcs)
SecondIdle == IF Cardinality(IdleProcs) < 2 THEN 0 ELSE Lowest(IdleProcs \ {FirstIdle})

\* Time passes.
Tick ==
    /\ now < MaxTicks * TickMs
    /\ now' = now + TickMs
    /\ UNCHANGED <<tokenFile, pendingStates, nextState, issued, procs, declared, committed>>
    /\ UNCHANGED <<sessVars, storeVars, metVars>>


\* ------------------------------------------------ authenticated API client

\* client.ts:35-45 request -> client.ts:21-22 getAccessToken -> token-store.ts
\* 61-62: the call is made and suspends on the read of the token file.
ApiStart(p, k) ==
    /\ p = FirstIdle
    /\ procs' = MarkOverlap([procs EXCEPT ![p] = [Idle EXCEPT !.op = "api", !.pc = "get",
                                                             !.key = k]], p, k)
    /\ UNCHANGED <<now, tokenFile, pendingStates, nextState, issued, declared, committed>>
    /\ UNCHANGED <<sessVars, storeVars, metVars>>

\* metrics.ts:90-94 Promise.all([listSleep, listCycles]): two calls on one key
\* are started in the same stretch of code.
GetTodayMetrics(p, q, k) ==
    /\ p # q
    /\ p = FirstIdle
    /\ q = SecondIdle
    /\ procs' = MarkOverlap(
                   MarkOverlap([procs EXCEPT
                                  ![p] = [Idle EXCEPT !.op = "api", !.pc = "get", !.key = k],
                                  ![q] = [Idle EXCEPT !.op = "api", !.pc = "get", !.key = k]],
                               p, k), q, k)
    /\ UNCHANGED <<now, tokenFile, pendingStates, nextState, issued, declared, committed>>
    /\ UNCHANGED <<sessVars, storeVars, metVars>>

\* client.ts:22-32: the file read completes; no token -> throw; expired ->
\* refreshToken(key), which suspends on its own read (whoop-oauth.ts:89);
\* otherwise the stored access token goes out on the request (client.ts:37-43).
ApiGet(p) ==
    /\ procs[p].op = "api"
    /\ procs[p].pc = "get"
    /\ LET token == Lookup(tokenFile, procs[p].key) IN
         procs' = [procs EXCEPT ![p] =
            IF token = Null
            THEN Answered(@, "NoWhoopToken")
            ELSE IF isExpired(token, now)
            THEN [@ EXCEPT !.pc = "r_get"]
            ELSE [@ EXCEPT !.pc = "http", !.bearer = token.accessToken]]
    /\ UNCHANGED <<now, tokenFile, pendingStates, nextState, issued, declared, committed>>
    /\ UNCHANGED <<sessVars, storeVars, metVars>>

\* whoop-oauth.ts:88-107: refreshToken's read completes; nothing stored ->
\* throw; otherwise the refresh POST is sent.
RefreshGet(p) ==
    /\ procs[p].op = "api"
    /\ procs[p].pc = "r_get"
    /\ LET existing == Lookup(tokenFile, procs[p].key) IN
         procs' = [procs EXCEPT ![p] =
            IF existing = Null
            THEN Answered(@, "NoStoredRefreshToken")
            ELSE [@ EXCEPT !.existing = existing, !.pc = "r_post",
                           !.posts = @ + 1]]
    /\ UNCHANGED <<now, tokenFile, pendingStates, nextState, issued, declared, committed>>
    /\ UNCHANGED <<sessVars, storeVars, metVars>>

\* whoop-oauth.ts:103-111: the token endpoint answers the refresh POST; a
\* failure is thrown to the caller, a success is normalized and handed to
\* tokenStore.set, which suspends on its read of the file.
RefreshResponse(p) ==
    /\ procs[p].op = "api"
    /\ procs[p].pc = "r_post"
    /\ \E data \in TokenResponses :
         IF data.ok
         THEN /\ issued' = issued + 1
              /\ declared' = Declare(declared, data, now)
              /\ procs' = [procs EXCEPT ![p] =
                    [@ EXCEPT !.data = data, !.normAt = now, !.pc = "set_read",
                              !.tokenSet = normalizeTokenResponse(data, procs[p].existing, now)]]
         ELSE /\ issued' = issued
              /\ declared' = declared
              /\ procs' = [procs EXCEPT ![p] = rejected(@, "RefreshFailed")]
    /\ UNCHANGED <<now, tokenFile, pendingStates, nextState, committed>>
    /\ UNCHANGED <<sessVars, storeVars, metVars>>

\* client.ts:36-44: the data API answers the request.
HttpResponse(p) ==
    /\ procs[p].op = "api"
    /\ procs[p].pc = "http"
    /\ \E ok \in BOOLEAN :
         procs' = [procs EXCEPT ![p] =
            Answered(@, IF ok THEN "ok" ELSE "HttpFailed")]
    /\ UNCHANGED <<now, tokenFile, pendingStates, nextState, issued, declared, committed>>
    /\ UNCHANGED <<sessVars, storeVars, metVars>>

\* ------------------------------------------------------------ token store

\* token-store.ts:66-69 set: readFile completes, contents[key] = tokenSet,
\* writeFile suspends (ensureDir, fs.writeFile).
SetRead(p) ==
    /\ procs[p].pc = "set_read"
    /\ procs' = [procs EXCEPT ![p] =
          [@ EXCEPT !.contents = Assign(tokenFile, procs[p].key, procs[p].tokenSet),
                    !.pc = "set_write"]]
    /\ UNCHANGED <<now, tokenFile, pendingStates, nextState, issued, declared, committed>>
    /\ UNCHANGED <<sessVars, storeVars, metVars>>

\* token-store.ts:56-59 writeFile: the whole document is replaced by the
\* handler's copy.  The caller then resumes: refreshToken returns to
\* getAccessToken and the refreshed access token goes out on the request
\* (client.ts:28-29, 36-43); the callback route deletes the state and answers
\* (part_000:188-194).
SetWrite(p) ==
    /\ procs[p].pc = "set_write"
    /\ tokenFile' = procs[p].contents
    /\ IF procs[p].op = "api"
       THEN /\ procs' = [procs EXCEPT ![p] =
                  [@ EXCEPT !.pc = "http", !.bearer = procs[p].tokenSet.accessToken,
                            !.contents = EmptyContents, !.data = NoData, !.normAt = 0,
                            !.existing = Null]]
            /\ UNCHANGED pendingStates
       ELSE /\ procs' = [procs EXCEPT ![p] =
                  Answered(@, IF procs[p].entry.successRedirect # ""
                              THEN "redirect" ELSE "ok")]
            /\ pendingStates' = deleteState(pendingStates, procs[p].state)
    /\ committed' = [committed EXCEPT ![procs[p].key] = procs[p].tokenSet]
    /\ UNCHANGED <<now, nextState, issued, declared>>
    /\ UNCHANGED <<sessVars, storeVars, metVars>>

\* ------------------------------------------------------------ OAuth routes

\* part_000:157-172 GET /oauth/whoop/login; whoop-oauth.ts:51-65.
Login(k, next) ==
    /\ nextState <= MaxStates
    /\ pendingStates' = [s \in DOMAIN pendingStates \cup {nextState} |->
                            IF s = nextState
                            THEN [key |-> k, successRedirect |-> next]
                            ELSE pendingStates[s]]
    /\ nextState' = nextState + 1
    /\ UNCHANGED <<now, tokenFile, issued, procs, declared, committed>>
    /\ UNCHANGED <<sessVars, storeVars, metVars>>

\* part_000:174-188 the callback route up to its await: a missing code or
\* state -> 400; an unknown state -> 400; otherwise exchangeCode sends the
\* authorization_code POST (whoop-oauth.ts:67-80).
Callback(p, hasCode, state) ==
    /\ p = FirstIdle
    /\ LET arrived == [Idle EXCEPT !.op = "callback", !.code = hasCode, !.state = state]
           entry == getEntry(pendingStates, state)
       IN IF ~hasCode \/ state = 0
          THEN procs' = [procs EXCEPT ![p] =
                  [arrived EXCEPT !.pc = "done", !.result = "MissingCodeOrState"]]
          ELSE IF entry = NoEntry
          THEN procs' = [procs EXCEPT ![p] =
                  [arrived EXCEPT !.pc = "done", !.result = "UnknownState"]]
          ELSE procs' = MarkOverlap(
                  [procs EXCEPT ![p] =
                     [arrived EXCEPT !.pc = "x_post", !.entry = entry,
                                     !.key = entry.key, !.posts = 1]],
                  p, entry.key)
    /\ UNCHANGED <<now, tokenFile, pendingStates, nextState, issued, declared, committed>>
    /\ UNCHANGED <<sessVars, storeVars, metVars>>

\* whoop-oauth.ts:76-84 and part_000:195-198: the token endpoint answers the
\* exchange POST; a failure -> 500 and the state stays registered.
ExchangeResponse(p) ==
    /\ procs[p].op = "callback"
    /\ procs[p].pc = "x_post"
    /\ \E data \in TokenResponses :
         IF data.ok
         THEN /\ issued' = issued + 1
              /\ declared' = Declare(declared, data, now)
              /\ pendingStates' = pendingStates
              /\ procs' = [procs EXCEPT ![p] =
                    [@ EXCEPT !.data = data, !.normAt = now, !.pc = "set_read",
                              !.tokenSet = normalizeTokenResponse(data, Null, now)]]
         ELSE /\ issued' = issued
              /\ declared' = declared
              /\ pendingStates' = exchangeFailed(pendingStates, procs[p].state)
              /\ procs' = [procs EXCEPT ![p] = rejected(@, "ExchangeFailed")]
    /\ UNCHANGED <<now, tokenFile, nextState, committed>>
    /\ UNCHANGED <<sessVars, storeVars, metVars>>

Next ==
    \/ Tick
    \/ \E p \in Procs, k \in Keys : ApiStart(p, k)
    \/ \E p \in Procs, q \in Procs, k \in Keys : GetTodayMetrics(p, q, k)
    \/ \E p \in Procs : ApiGet(p)
    \/ \E p \in Procs : RefreshGet(p)
    \/ \E p \in Procs : RefreshResponse(p)
    \/ \E p \in Procs : HttpResponse(p)
    \/ \E p \in Procs : SetRead(p)
    \/ \E p \in Procs : SetWrite(p)
    \/ \E req \in LoginRequests : Login(req.key, req.next)
    \/ \E p \in Procs, hasCode \in BOOLEAN, state \in {0} \cup StateIds :
          Callback(p, hasCode, state)
    \/ \E p \in Procs : ExchangeResponse(p)

Spec == Init /\ [][Next]_vars


\* ------------------------------------------------------ session multiplexer

\* part_000:39-40  apiKeyHeader?.startsWith('Bearer ') and the slice after it,
\* tabulated for the header values in ApiKeyHeaders.
BearerValues == [h \in {"Bearer secret"} |-> "secret"]

\* A check that accepts a request when either header carries the key.
validateEitherHeader(expected, headers) ==
    \/ expected = Undefined
    \/ headers.xApiKey = expected
    \/ headers.authorization = expected
    \/ /\ headers.authorization \in DOMAIN BearerValues
       /\ BearerValues[headers.authorization] = expected

\* part_000:34-41  the key a request provides: the bearer value of
\* Authorization, else the raw Authorization value, else x-api-key.
providedKey(headers) ==
    IF headers.authorization \in DOMAIN BearerValues
    THEN BearerValues[headers.authorization]
    ELSE Coalesce(headers.authorization, headers.xApiKey)

\* part_000:28-53 validateApiKey
validateApiKey(expected, headers) ==
    IF expected = Undefined THEN TRUE ELSE providedKey(headers) = expected

\* A lookup that hands an unknown id the first session's transport.
getOrFirst(map, sessionId) ==
    IF sessionId \in DOMAIN map THEN map[sessionId]
    ELSE IF 1 \in DOMAIN map THEN map[1] ELSE 0

\* part_000:247, 284  transports.get(sessionId); 0 stands for undefined
getTransport(map, sessionId) == IF sessionId \in DOMAIN map THEN map[sessionId] ELSE 0

\* A registration that reuses the newest id already in the map.
setUnderLastId(map, newSessionId, transport) ==
    LET id == IF newSessionId > 1 THEN newSessionId - 1 ELSE newSessionId
    IN [s \in DOMAIN map \cup {id} |-> IF s = id THEN transport ELSE map[s]]

\* part_000:229  transports.set(newSessionId, transport)
setTransport(map, newSessionId, transport) ==
    [s \in DOMAIN map \cup {newSessionId} |->
        IF s = newSessionId THEN transport ELSE map[s]]

\* A test that takes every request without a session id for an initialization.
isInitPathAlways(sessionId, isInitialize) == sessionId = 0

\* part_000:225  !sessionId && isInitializeRequest(req.body)
isInitPath(sessionId, isInitialize) == sessionId = 0 /\ isInitialize

\* An entry that is made whether or not the transport has signalled.
registerAlways(map, newSessionId, transport, signalled) ==
    setTransport(map, newSessionId, transport)

\* part_000:228-230  the map entry is made by the onsessioninitialized callback,
\* which the transport calls when it has accepted the initialization.
onsessioninitialized(map, newSessionId, transport, signalled) ==
    IF signalled THEN setTransport(map, newSessionId, transport) ELSE map

\* part_000:227  sessionIdGenerator: randomUUID() never repeats an id.
NewSessionId == Cardinality(DOMAIN transports) + 1

FreeSlots == {r \in Slots : reqs[r].pc \in {"idle", "done"}}
FirstFree == IF FreeSlots = {} THEN 0 ELSE Lowest(FreeSlots)
UnusedTransports == {t \in Transports : conns[t] = "none"}
FreshTransport == IF UnusedTransports = {} THEN 0 ELSE Lowest(UnusedTransports)

\* A request record holds the API-key headers only in a 401 answer: past the
\* check the code does not read them again.  Past a check against a
\* configured key the record holds the key the request provided.
Answer(req, status) == [req EXCEPT !.pc = "done", !.status = status]
Admit(req) ==
    [req EXCEPT !.headers = NoApiKeyHeaders,
                !.provided = IF apiKey = Undefined THEN Undefined
                             ELSE providedKey(req.headers)]

\* part_000:216-257 POST /sse up to its first await: the API-key check, then
\* a new transport for an initialization without a session id (server.connect
\* suspends), 400 without a session id, 404 for an id not in the map, or the
\* request is handed to the transport found (handleRequest suspends).
PostSse(r, headers, sessionId, isInitialize) ==
    /\ r = FirstFree
    /\ LET arrived == [NoRequest EXCEPT !.method = "POST", !.headers = headers,
                                        !.sid = sessionId, !.init = isInitialize]
           req == Admit(arrived)
           existing == getTransport(transports, sessionId)
       IN IF ~validateApiKey(apiKey, headers)
          THEN reqs' = [reqs EXCEPT ![r] = Answer(arrived, 401)] /\ conns' = conns
          ELSE IF isInitPath(sessionId, isInitialize)
          THEN /\ FreshTransport # 0
               /\ conns' = [conns EXCEPT ![FreshTransport] = "created"]
               /\ reqs' = [reqs EXCEPT ![r] =
                     [req EXCEPT !.pc = "connect", !.transport = FreshTransport]]
          ELSE IF sessionId = 0
          THEN reqs' = [reqs EXCEPT ![r] = Answer(req, 400)] /\ conns' = conns
          ELSE IF existing = 0
          THEN reqs' = [reqs EXCEPT ![r] = Answer(req, 404)] /\ conns' = conns
          ELSE /\ reqs' = [reqs EXCEPT ![r] =
                     [req EXCEPT !.pc = "handle", !.transport = existing]]
               /\ conns' = conns
    /\ UNCHANGED <<apiKey, transports>>
    /\ UNCHANGED <<credVars, storeVars, metVars>>

\* part_000:233 and 258-267: server.connect(transport) resolves, and
\* handleRequest is called on the new transport; or it rejects -> 500.
ConnectDone(r, ok) ==
    /\ reqs[r].pc = "connect"
    /\ IF ok
       THEN /\ conns' = [conns EXCEPT ![reqs[r].transport] = "connected"]
            /\ reqs' = [reqs EXCEPT ![r] = [@ EXCEPT !.pc = "handle_init"]]
       ELSE /\ conns' = [conns EXCEPT ![reqs[r].transport] = "failed"]
            /\ reqs' = [reqs EXCEPT ![r] = Answer(@, 500)]
    /\ UNCHANGED <<apiKey, transports>>
    /\ UNCHANGED <<credVars, storeVars, metVars>>

\* part_000:226-235 and 258-267: the new transport handles the initialization.
\* It accepts it (generates the session id, calls onsessioninitialized and
\* answers), accepts it and then fails while answering, turns the request
\* down with an answer of its own, or throws before accepting.
InitOutcomes == {"accepted", "accepted_threw", "refused", "threw"}
HandleInit(r, outcome) ==
    /\ reqs[r].pc = "handle_init"
    /\ LET t == reqs[r].transport
           signalled == outcome \in {"accepted", "accepted_threw"}
       IN /\ transports' = onsessioninitialized(transports, NewSessionId, t, signalled)
          /\ conns' = [conns EXCEPT ![t] = IF signalled THEN "initialized" ELSE "failed"]
          /\ reqs' = [reqs EXCEPT ![r] =
                Answer(@, CASE outcome = "accepted" -> 200
                            [] outcome = "refused" -> 400
                            [] OTHER -> 500)]
    /\ UNCHANGED apiKey
    /\ UNCHANGED <<credVars, storeVars, metVars>>

\* part_000:271-291 GET /sse up to its await.
GetSse(r, headers, sessionId) ==
    /\ r = FirstFree
    /\ LET arrived == [NoRequest EXCEPT !.method = "GET", !.headers = headers,
                                        !.sid = sessionId]
           req == Admit(arrived)
           transport == getTransport(transports, sessionId)
       IN reqs' = [reqs EXCEPT ![r] =
             IF ~validateApiKey(apiKey, headers) THEN Answer(arrived, 401)
             ELSE IF sessionId = 0 THEN Answer(req, 400)
             ELSE IF transport = 0 THEN Answer(req, 404)
             ELSE [req EXCEPT !.pc = "handle", !.transport = transport]]
    /\ UNCHANGED <<apiKey, transports, conns>>
    /\ UNCHANGED <<credVars, storeVars, metVars>>

\* part_000:257-267, 291-297: the transport has dealt with the request it was
\* handed, or handleRequest threw -> 500.
HandleDone(r, ok) ==
    /\ reqs[r].pc = "handle"
    /\ reqs' = [reqs EXCEPT ![r] = Answer(@, IF ok THEN 200 ELSE 500)]
    /\ UNCHANGED <<apiKey, transports, conns>>
    /\ UNCHANGED <<credVars, storeVars, metVars>>

\* The transport of a session closes.  part_000:226-231 gives the transport no
\* onclose handler and nothing else deletes from the map (part_000:214-299).
TransportClosed(t) ==
    /\ conns[t] = "initialized"
    /\ conns' = [conns EXCEPT ![t] = "closed"]
    /\ UNCHANGED <<apiKey, transports, reqs>>
    /\ UNCHANGED <<credVars, storeVars, metVars>>

CredAtRest ==
    /\ now = 0
    /\ tokenFile = EmptyContents
    /\ declared = NoDeclared
    /\ committed = [k \in Keys |-> Lookup(tokenFile, k)]
    /\ pendingStates = [s \in {} |-> NoEntry]
    /\ nextState = 1
    /\ issued = 0
    /\ procs = [p \in Procs |-> Idle]

SessionInit ==
    /\ MetricsAtRest
    /\ apiKey \in ApiKeyConfigs
    /\ SessionsAtStart
    /\ CredAtRest
    /\ backend = "file"
    /\ dirMode = "writable"
    /\ disk = [l \in Locations |-> MissingFile]
    /\ keyPrefix = Undefined
    /\ rows = NoRows
    /\ StoreAtStart

SessionNext ==
    \/ \E r \in Slots, headers \in ApiKeyHeaders, sessionId \in SessionHeaders,
          isInitialize \in BOOLEAN : PostSse(r, headers, sessionId, isInitialize)
    \/ \E r \in Slots, ok \in BOOLEAN : ConnectDone(r, ok)
    \/ \E r \in Slots, outcome \in InitOutcomes : HandleInit(r, outcome)
    \/ \E r \in Slots, headers \in ApiKeyHeaders, sessionId \in SessionHeaders :
          GetSse(r, headers, sessionId)
    \/ \E r \in Slots, ok \in BOOLEAN : HandleDone(r, ok)
    \/ \E t \in Transports : TransportClosed(t)

SessionSpec == SessionInit /\ [][SessionNext]_vars


\* ------------------------------------------- token store, one call at a time
\* The store on its own: one whole call of get, set, clear or refreshToken per
\* step, with no other call in progress, on either backend and in every
\* state of the directory of the token file.

\* token-store.ts:44-54: the parsed document, {} when the file does not exist
\* (ENOENT), and the error of every other failure to read or parse.
readFile(d, path) ==
    CASE d[path].kind = "json" -> [error |-> "", contents |-> d[path].contents]
      [] d[path].kind = "missing" -> [error |-> "", contents |-> EmptyContents]
      [] OTHER -> [error |-> "ReadFailed", contents |-> EmptyContents]

\* JSON.stringify(contents, null, 2): the own properties of the document.
stringify(contents) == [kind |-> "json", contents |-> contents]

\* delete contents[key]
Remove(contents, key) == [k \in DOMAIN contents \ {key} |-> contents[k]]

\* The directory of the configured path: it takes files; it exists and takes
\* none; mkdir fails with ENOENT, EROFS or EACCES; mkdir fails otherwise.
DirModes == {"writable", "readonly", "uncreatable", "unusable"}

\* token-store.ts:25-42: the path the store writes to from now on.
ensureDir(path, mode) ==
    CASE path = "fallback" -> [error |-> "", path |-> path]
      [] mode = "uncreatable" -> [error |-> "", path |-> "fallback"]
      [] mode = "unusable" -> [error |-> "MkdirFailed", path |-> path]
      [] OTHER -> [error |-> "", path |-> path]

\* fs.writeFile at the path ensureDir left.
fsWriteFile(d, path, mode, raw) ==
    IF path = "configured" /\ mode = "readonly"
    THEN [error |-> "WriteFailed", disk |-> d]
    ELSE [error |-> "", disk |-> [d EXCEPT ![path] = raw]]

\* token-store.ts:56-59
writeFile(d, path, mode, contents) ==
    LET dir == ensureDir(path, mode)
        out == fsWriteFile(d, dir.path, mode, stringify(contents))
    IN  IF dir.error # "" THEN [error |-> dir.error, path |-> dir.path, disk |-> d]
        ELSE [error |-> out.error, path |-> dir.path, disk |-> out.disk]

\* token-store.ts:61-64
fileGet(d, path, key) ==
    LET doc == readFile(d, path)
    IN  IF doc.error # "" THEN [error |-> doc.error, result |-> Null]
        ELSE [error |-> "", result |-> Lookup(doc.contents, key)]

\* token-store.ts:66-70
fileSet(d, path, mode, key, tokenSet) ==
    LET doc == readFile(d, path)
    IN  IF doc.error # "" THEN [error |-> doc.error, path |-> path, disk |-> d]
        ELSE writeFile(d, path, mode, Assign(doc.contents, key, tokenSet))

\* token-store.ts:72-76
fileClear(d, path, mode, key) ==
    LET doc == readFile(d, path)
    IN  IF doc.error # "" THEN [error |-> doc.error, path |-> path, disk |-> d]
        ELSE writeFile(d, path, mode, Remove(doc.contents, key))

\* SUPABASE_TOKENS_PREFIX: unset, blank, or a prefix.
PrefixSettings == {Undefined, " ", "prod"}
Blank == {" "}
\* part_001:102: keyPrefix?.trim() ? keyPrefix : undefined
constructorPrefix(setting) ==
    IF setting = Undefined \/ setting \in Blank THEN Undefined ELSE setting
\* part_001:105-110
mapKey(prefix, key) == IF prefix = Undefined THEN key ELSE prefix \o ":" \o key

\* part_001:112-125: data?.token ?? null, and the error of a failed query.
supabaseGet(rws, prefix, key, ok) ==
    IF ~ok THEN [error |-> "SupabaseReadFailed", result |-> Null]
    ELSE IF mapKey(prefix, key) \in DOMAIN rws
         THEN [error |-> "", result |-> rws[mapKey(prefix, key)]]
         ELSE [error |-> "", result |-> Null]

\* part_001:127-136: upsert of {key, token} on conflict of key.
supabaseSet(rws, prefix, key, tokenSet, ok) ==
    IF ~ok THEN [error |-> "SupabaseWriteFailed", rows |-> rws]
    ELSE [error |-> "",
          rows |-> [k \in DOMAIN rws \cup {mapKey(prefix, key)} |->
                       IF k = mapKey(prefix, key) THEN tokenSet ELSE rws[k]]]

\* part_001:138-144: delete where key = mappedKey.
supabaseClear(rws, prefix, key, ok) ==
    IF ~ok THEN [error |-> "SupabaseClearFailed", rows |-> rws]
    ELSE [error |-> "", rows |-> [k \in DOMAIN rws \ {mapKey(prefix, key)} |-> rws[k]]]

\* part_001:147-178: the backend the store was constructed with answers.
storeGet(b, d, path, rws, prefix, key, ok) ==
    IF b = "file" THEN fileGet(d, path, key) ELSE supabaseGet(rws, prefix, key, ok)

\* The records the store was given in this model, and the refreshes of them.
StoredRecords ==
    {normalizeTokenResponse(PriorData, Null, 0),
     [accessToken |-> "A9", refreshToken |-> "", expiresAt |-> 0 - TickMs,
      scope |-> "", tokenType |-> "bearer"]}
StoreResponses ==
    {NoData} \cup
    {[ok |-> TRUE, access_token |-> "A1", refresh_token |-> r, expires_in |-> 90,
      scope |-> "read:sleep", token_type |-> "Bearer"] : r \in {Undefined, "R1"}}

Done(op, key, arg, error, result, posts) ==
    [op |-> op, key |-> key, arg |-> arg, error |-> error, result |-> result,
     posts |-> posts, bearer |-> ""]

\* What a call of set leaves behind, on the backend in use.
storeSet(b, d, path, mode, rws, prefix, key, tokenSet, ok) ==
    IF b = "file"
    THEN LET out == fileSet(d, path, mode, key, tokenSet)
         IN  [error |-> out.error, path |-> out.path, disk |-> out.disk, rows |-> rws]
    ELSE LET out == supabaseSet(rws, prefix, key, tokenSet, ok)
         IN  [error |-> out.error, path |-> path, disk |-> d, rows |-> out.rows]

storeClear(b, d, path, mode, rws, prefix, key, ok) ==
    IF b = "file"
    THEN LET out == fileClear(d, path, mode, key)
         IN  [error |-> out.error, path |-> out.path, disk |-> out.disk, rows |-> rws]
    ELSE LET out == supabaseClear(rws, prefix, key, ok)
         IN  [error |-> out.error, path |-> path, disk |-> d, rows |-> out.rows]

\* Only a query of the remote table has an outcome of its own.
QueryOutcomes == IF backend = "remote" THEN BOOLEAN ELSE {TRUE}

\* A call ends: what it leaves in the store and what the caller gets.
Finish(op, key, arg, error, result, posts, bearer, path, d, rws) ==
    /\ absolutePath' = path
    /\ disk' = d
    /\ rows' = rws
    /\ lastOp' = [Done(op, key, arg, error, result, posts) EXCEPT !.bearer = bearer]
    /\ UNCHANGED <<backend, dirMode, keyPrefix>>
    /\ UNCHANGED <<credVars, sessVars, metVars>>

\* A call ends with an error before it has written anything.
Throw(op, key, error, posts) ==
    Finish(op, key, Null, error, Null, posts, "", absolutePath, disk, rows)

StoreGet(key) ==
    \E ok \in QueryOutcomes :
    \E out \in {storeGet(backend, disk, absolutePath, rows, keyPrefix, key, ok)} :
        Finish("get", key, Null, out.error, out.result, 0, "", absolutePath, disk, rows)

StoreSet(key, tokenSet) ==
    \E ok \in QueryOutcomes :
    \E out \in {storeSet(backend, disk, absolutePath, dirMode, rows, keyPrefix,
                         key, tokenSet, ok)} :
        Finish("set", key, tokenSet, out.error, Null, 0, "", out.path, out.disk, out.rows)

StoreClear(key) ==
    \E ok \in QueryOutcomes :
    \E out \in {storeClear(backend, disk, absolutePath, dirMode, rows, keyPrefix,
                           key, ok)} :
        Finish("clear", key, Null, out.error, Null, 0, "", out.path, out.disk, out.rows)

\* client.ts:37-44: the data request goes out with the bearer and is answered.
request(op, key, result, posts, bearer, path, d, rws) ==
    \E httpOk \in BOOLEAN :
        Finish(op, key, Null, IF httpOk THEN "" ELSE "HttpFailed", result, posts,
               bearer, path, d, rws)

\* whoop-oauth.ts:88-113, the whole call: the lookup, the one POST when a
\* record was found, the commit of the normalized answer; then, for
\* getAccessToken (client.ts:28-29), the data request with the new token.
refreshToken(op, key, forRequest) ==
    \E getOk \in QueryOutcomes :
    \E existing \in {storeGet(backend, disk, absolutePath, rows, keyPrefix, key, getOk)} :
        IF existing.error # "" THEN Throw(op, key, existing.error, 0)
        ELSE IF existing.result = Null THEN Throw(op, key, "NoStoredRefreshToken", 0)
        ELSE \E data \in StoreResponses :
            IF ~data.ok THEN Throw(op, key, "RefreshFailed", 1)
            ELSE \E setOk \in QueryOutcomes :
                 \E tokenSet \in {normalizeTokenResponse(data, existing.result, now)} :
                 \E out \in {storeSet(backend, disk, absolutePath, dirMode, rows,
                                      keyPrefix, key, tokenSet, setOk)} :
                    IF out.error # ""
                    THEN Finish(op, key, Null, out.error, Null, 1, "",
                                out.path, out.disk, out.rows)
                    ELSE IF forRequest
                    THEN request(op, key, tokenSet, 1, tokenSet.accessToken,
                                 out.path, out.disk, out.rows)
                    ELSE Finish(op, key, Null, "", tokenSet, 1, "",
                                out.path, out.disk, out.rows)

StoreRefresh(key) == refreshToken("refresh", key, FALSE)

\* whoop-oauth.ts:67-86, the whole call: the one POST and the commit of the
\* normalized answer.
StoreExchange(key) ==
    \E data \in StoreResponses :
        IF ~data.ok THEN Throw("exchange", key, "ExchangeFailed", 1)
        ELSE \E setOk \in QueryOutcomes :
             \E tokenSet \in {normalizeTokenResponse(data, Null, now)} :
             \E out \in {storeSet(backend, disk, absolutePath, dirMode, rows,
                                  keyPrefix, key, tokenSet, setOk)} :
                Finish("exchange", key, Null, out.error,
                       IF out.error = "" THEN tokenSet ELSE Null, 1, "",
                       out.path, out.disk, out.rows)

\* client.ts:21-45, the whole call: getAccessToken (the lookup, and
\* refreshToken when the record has expired) and the data request.
StoreApiCall(key) ==
    \E getOk \in QueryOutcomes :
    \E token \in {storeGet(backend, disk, absolutePath, rows, keyPrefix, key, getOk)} :
        IF token.error # "" THEN Throw("api", key, token.error, 0)
        ELSE IF token.result = Null THEN Throw("api", key, "NoWhoopToken", 0)
        ELSE IF isExpired(token.result, now) THEN refreshToken("api", key, TRUE)
        ELSE request("api", key, Null, 0, token.result.accessToken,
                     absolutePath, disk, rows)

\* The documents and tables the store can find when it is constructed.
StartDocuments ==
    {EmptyContents,
     [k \in {"default"} |-> normalizeTokenResponse(PriorData, Null, 0)],
     [k \in {"default", "user123"} |-> normalizeTokenResponse(PriorData, Null, 0)]}
StartFiles ==
    {MissingFile, [kind |-> "garbage", contents |-> EmptyContents]}
        \cup {stringify(c) : c \in StartDocuments}
StartRows(prefix) ==
    {NoRows,
     [k \in {mapKey(prefix, "default"), "other:default"} |->
         normalizeTokenResponse(PriorData, Null, 0)]}

StoreInit ==
    /\ CredAtRest
    /\ MetricsAtRest
    /\ apiKey = Undefined
    /\ SessionsAtStart
    /\ StoreAtStart
    /\ backend \in {"file", "remote"}
    /\ IF backend = "file"
       THEN /\ keyPrefix = Undefined
            /\ rows = NoRows
            /\ dirMode \in DirModes
            /\ \E configured \in StartFiles, fallback \in StartFiles :
                  /\ dirMode = "uncreatable" => configured = MissingFile
                  /\ dirMode = "unusable" => configured.kind \in {"missing", "garbage"}
                  /\ fallback.kind # "garbage"
                  /\ disk = [l \in Locations |->
                                IF l = "configured" THEN configured ELSE fallback]
       ELSE /\ keyPrefix \in {constructorPrefix(s) : s \in PrefixSettings}
            /\ rows \in StartRows(keyPrefix)
            /\ dirMode = "writable"
            /\ disk = [l \in Locations |-> MissingFile]

StoreNext ==
    \/ \E key \in Keys : StoreGet(key)
    \/ \E key \in Keys, tokenSet \in StoredRecords : StoreSet(key, tokenSet)
    \/ \E key \in Keys : StoreClear(key)
    \/ \E key \in Keys : StoreRefresh(key)
    \/ \E key \in Keys : StoreExchange(key)
    \/ \E key \in Keys : StoreApiCall(key)

StoreSpec == StoreInit /\ [][StoreNext]_vars

\* ------------------------------------------------------------- metrics
\* src/src/whoop/metrics.ts.  Times are whole seconds since the epoch (the
\* code counts the same instants in milliseconds); a date string is the
\* instant it denotes, or not an ISO date at all.  A timezone offset is the
\* sequence of its characters, so that the pattern of metrics.ts:31 is
\* matched character by character.

NaN == Absent
IsoDate(t) == [iso |-> TRUE, time |-> t]
BadDate == [iso |-> FALSE, time |-> 0]
At(day, hour, minute) == (day * 24 + hour) * 3600 + minute * 60
Chars(sign, h1, h2, sep, m1, m2) == <<sign, h1, h2, sep, m1, m2>>

\* new Date(string).getTime(): NaN for a string that is not a date.
getTime(dateString) ==
    IF dateString.iso THEN Present(dateString.time) ELSE NaN

DigitChars == <<"0", "1", "2", "3", "4", "5", "6", "7", "8", "9">>
IsDigit(c) == \E i \in DOMAIN DigitChars : DigitChars[i] = c
\* Number.parseInt(str, 10) of a string of two digits.
parseInt(d1, d2) ==
    LET value(c) == (CHOOSE i \in DOMAIN DigitChars : DigitChars[i] = c) - 1
    IN  value(d1) * 10 + value(d2)

\* metrics.ts:31, /^([+-])(\d{2}):(\d{2})$/
matchOffset(offset) ==
    /\ Len(offset) = 6
    /\ offset[1] \in {"+", "-"}
    /\ IsDigit(offset[2]) /\ IsDigit(offset[3])
    /\ offset[4] = ":"
    /\ IsDigit(offset[5]) /\ IsDigit(offset[6])

\* metrics.ts:26-45.  The result is null (Absent) or the minutes.
parseOffsetMinutes(offset) ==
    IF offset = Absent \/ offset = Present(<< >>)
    THEN Absent
    ELSE IF ~matchOffset(offset[1])
    THEN Absent
    ELSE LET hours == parseInt(offset[1][2], offset[1][3])
             minutes == parseInt(offset[1][5], offset[1][6])
             totalMinutes == hours * 60 + minutes
         IN  Present(IF offset[1][1] = "-" THEN -totalMinutes ELSE totalMinutes)

\* Date.prototype.getUTCFullYear / getUTCMonth / getUTCDate of an instant:
\* the proleptic Gregorian calendar date of its day number.
utcDate(t) ==
    LET z == (t \div 86400) + 719468
        era == z \div 146097
        doe == z - era * 146097
        yoe == (doe - doe \div 1460 + doe \div 36524 - doe \div 146096) \div 365
        doy == doe - (365 * yoe + yoe \div 4 - yoe \div 100)
        mp == (5 * doy + 2) \div 153
        month == IF mp < 10 THEN mp + 3 ELSE mp - 9
    IN  [year |-> yoe + era * 400 + (IF month <= 2 THEN 1 ELSE 0),
         month |-> month - 1,
         date |-> doy - (153 * mp + 2) \div 5 + 1]

\* The instant moved by an offset in minutes (metrics.ts:54-55); NaN stays NaN.
shifted(time, offsetMinutes) ==
    IF time = NaN THEN NaN ELSE Present(time[1] + offsetMinutes * 60)

\* The comparison of metrics.ts:57-61 with the shift left out.
isSameUtcDate(value, ref) ==
    LET offsetMinutes == parseOffsetMinutes(value.timezone_offset)
        targetDate == IF value.end # Absent THEN value.end[1] ELSE value.start
        local == getTime(targetDate)
    IN  /\ offsetMinutes # Absent
        /\ local # NaN
        /\ utcDate(local[1]) = utcDate(ref)

\* metrics.ts:47-62
isSameLocalDate(value, ref) ==
    LET offsetMinutes == parseOffsetMinutes(value.timezone_offset)
    IN  IF offsetMinutes = Absent
        THEN FALSE
        ELSE LET targetDate == IF value.end # Absent THEN value.end[1]
                                                      ELSE value.start
                 local == shifted(getTime(targetDate), offsetMinutes[1])
                 nowLocal == shifted(Present(ref), offsetMinutes[1])
             IN  /\ local # NaN
                 /\ utcDate(local[1]).year = utcDate(nowLocal[1]).year
                 /\ utcDate(local[1]).month = utcDate(nowLocal[1]).month
                 /\ utcDate(local[1]).date = utcDate(nowLocal[1]).date

\* metrics.ts:86-88: records.find(...) ?? records[0]
pickRecordForToday(records, ref) ==
    LET found == {i \in DOMAIN records : isSameLocalDate(records[i], ref)}
    IN  IF found # {}
        THEN Present(records[CHOOSE i \in found : \A j \in found : i <= j])
        ELSE IF records # << >> THEN Present(records[1]) ELSE Absent

MILLISECONDS_PER_HOUR == 3600000         \* metrics.ts:23
KILOJOULE_TO_KILOCALORIE == 239005736    \* metrics.ts:24, in billionths

\* Number((n / d).toFixed(2)), in hundredths.
toFixed2(n, d) == (n * 100 + d \div 2) \div d

\* metrics.ts:64-70, in hundredths of an hour
hoursFromMilliseconds(value) ==
    IF value = Absent THEN Absent
    ELSE Present(toFixed2(value[1] \div 1000, MILLISECONDS_PER_HOUR \div 1000))

\* metrics.ts:72-84, in hundredths of an hour
durationHours(record) ==
    IF record = Absent THEN Absent
    ELSE LET start == getTime(record[1].start)
             end == IF record[1].end = Absent THEN NaN ELSE getTime(record[1].end[1])
         IN  IF start = NaN \/ end = NaN THEN Absent
             ELSE Present(toFixed2(end[1] - start[1], MILLISECONDS_PER_HOUR \div 1000))

\* record?.field, for a field that is itself Absent or Present
Optional(record, field) == IF record = Absent THEN Absent ELSE record[1][field]

\* metrics.ts:96-118, from the two lists on.  Hours and calories are in
\* hundredths; scores, strain and ids are the numbers and strings themselves.
getTodayMetrics(sleeps, cycles, ref) ==
    LET sleep == pickRecordForToday(sleeps, ref)
        cycle == pickRecordForToday(cycles, ref)
        sleepScore == Optional(sleep, "score")
        stageSummary == Optional(sleepScore, "stage_summary")
        cycleScore == Optional(cycle, "score")
        kilojoule == Optional(cycleScore, "kilojoule")
        calories == IF kilojoule # Absent
                    THEN Present((kilojoule[1] * KILOJOULE_TO_KILOCALORIE + 5000000)
                                    \div 10000000)
                    ELSE Absent
    IN  [sleepRecord |-> sleep,
         cycleRecord |-> cycle,
         metrics |->
            [asked |-> TRUE,
             sleep_hours |-> durationHours(sleep),
             sleep_score |-> Optional(sleepScore, "sleep_performance_percentage"),
             light_sleep_hours |->
                hoursFromMilliseconds(Optional(stageSummary, "total_light_sleep_time_milli")),
             deep_sleep_hours |->
                hoursFromMilliseconds(Optional(stageSummary, "total_slow_wave_sleep_time_milli")),
             rem_sleep_hours |->
                hoursFromMilliseconds(Optional(stageSummary, "total_rem_sleep_time_milli")),
             strain |-> Optional(cycleScore, "strain"),
             calories |-> calories,
             cycle_id |-> Optional(cycle, "id"),
             sleep_id |-> Optional(sleep, "id")]]

\* The inputs: offsets as WHOOP sends them, and missing or malformed ones;
\* end times either side of midnight on 29 February 2024 (day 19782 of the
\* epoch) and on the same day of the month before.
Plus0530 == Chars("+", "0", "5", ":", "3", "0")
Minus0800 == Chars("-", "0", "8", ":", "0", "0")
SleepOffsets == {Absent, Present(Plus0530), Present(Minus0800), Present(<<"Z">>)}
CycleOffsets == {Present(<< >>), Present(<<"+", "5", ":", "3", "0">>), Present(Minus0800)}
SleepEnds == {IsoDate(At(19782, 17, 0)), IsoDate(At(19782, 20, 0)),
              IsoDate(At(19751, 20, 0)), BadDate}
CycleStarts == {At(19781, 20, 0), At(19782, 20, 0)}
References == {At(19782, 23, 30), At(19783, 0, 30)}

\* The first record of a list has been scored, the second is still pending.
SleepScores ==
    <<Present([sleep_performance_percentage |-> Present(85),
               stage_summary |->
                  Present([total_light_sleep_time_milli |-> Present(14400000),
                           total_slow_wave_sleep_time_milli |-> Present(5400000),
                           total_rem_sleep_time_milli |-> Present(0)])]),
      Absent>>
CycleScores == <<Present([strain |-> Present(0), kilojoule |-> Present(8)]), Absent>>
SleepIds == <<"sleep-1", "sleep-2">>
CycleIds == <<101, 102>>

SleepAt(i, end, offset) ==
    [id |-> Present(SleepIds[i]),
     start |-> IF end.iso THEN IsoDate(end.time - 8 * 3600) ELSE IsoDate(At(19782, 9, 0)),
     end |-> Present(end), timezone_offset |-> offset, score |-> SleepScores[i]]
CycleAt(i, start, ended, offset) ==
    [id |-> Present(CycleIds[i]),
     start |-> IsoDate(start),
     end |-> IF ended THEN Present(IsoDate(start + 24 * 3600)) ELSE Absent,
     timezone_offset |-> offset, score |-> CycleScores[i]]

SleepLists ==
    UNION {{[i \in 1..n |-> SleepAt(i, e[i], o[i])] :
               e \in [1..n -> SleepEnds], o \in [1..n -> SleepOffsets]} :
           n \in 0..MaxRecords}
CycleLists ==
    UNION {{[i \in 1..n |-> CycleAt(i, st[i], en[i], o[i])] :
               st \in [1..n -> CycleStarts], en \in [1..n -> BOOLEAN],
               o \in [1..n -> CycleOffsets]} :
           n \in 0..MaxRecords}

MetricsInit ==
    /\ CredAtRest
    /\ apiKey = Undefined
    /\ SessionsAtStart
    /\ StoreAtStart
    /\ backend = "file"
    /\ dirMode = "writable"
    /\ disk = [l \in Locations |-> MissingFile]
    /\ keyPrefix = Undefined
    /\ rows = NoRows
    /\ sleepRecords \in SleepLists
    /\ cycleRecords \in CycleLists
    /\ reference \in References
    /\ sleepRecord = Absent
    /\ cycleRecord = Absent
    /\ metrics = NotAsked

\* metrics.ts:96-118: the part of getTodayMetrics after the two lists arrived.
TodayMetrics ==
    /\ ~metrics.asked
    /\ \E today \in {getTodayMetrics(sleepRecords, cycleRecords, reference)} :
          /\ sleepRecord' = today.sleepRecord
          /\ cycleRecord' = today.cycleRecord
          /\ metrics' = today.metrics
    /\ UNCHANGED <<sleepRecords, cycleRecords, reference>>
    /\ UNCHANGED <<credVars, sessVars, storeVars>>

MetricsNext == TodayMetrics

MetricsSpec == MetricsInit /\ [][MetricsNext]_vars

\* ------------------------------------------------------------------ claims

Api(p) == procs[p].op = "api"
Cb(p) == procs[p].op = "callback"
\* Handler p takes a step out of position pc.
Leaves(p, pc) == procs[p].pc = pc /\ procs'[p].pc # pc
HasRecord(k) == k \in DOMAIN tokenFile

\* C1: for every account key, at most one refresh POST is in flight at any time.
C1_SingleRefreshInFlight ==
    \A k \in Keys :
        Cardinality({p \in Procs : Api(p) /\ procs[p].pc = "r_post" /\ procs[p].key = k}) <= 1

\* C2: for every state issued by the login route, at most one callback carrying
\* it ever obtains the registered entry and starts a code exchange.
C2_StateTakenOnce ==
    \A s \in StateIds :
        Cardinality({p \in Procs : Cb(p) /\ procs[p].state = s /\ procs[p].posts > 0}) <= 1

\* C3: once every set in progress has completed, each key holds the record of
\* the last set on that key to complete (last write wins per key; a set on
\* another key loses nothing).
C3_LastWriteWinsPerKey ==
    (\A p \in Procs : procs[p].pc \notin {"set_read", "set_write"})
        => \A k \in Keys : Lookup(tokenFile, k) = committed[k]

\* C4: an API call on a key whose record is expired, with no other operation on
\* that key in progress, makes exactly one refresh POST, sends the refreshed
\* access token as the bearer and leaves the refreshed record stored under the
\* key (a refused refresh aside).
C4_ExpiredCallRefreshesOnce ==
    \A p \in Procs :
        (Api(p) /\ ~procs[p].overlap) =>
            /\ procs[p].result # "NoStoredRefreshToken"
            /\ procs[p].posts <= 1
            /\ (procs[p].pc = "http" /\ procs[p].posts = 1) =>
                  /\ procs[p].bearer = procs[p].tokenSet.accessToken
                  /\ Lookup(tokenFile, procs[p].key) = procs[p].tokenSet

\* C5: an API call that finds a record with expiresAt > now sends the stored
\* access token, makes no refresh POST and does not write the token file.
C5_ValidTokenUsedAsStored ==
    [][\A p \in Procs :
          /\ (Api(p) /\ Leaves(p, "get") /\ HasRecord(procs[p].key)
                /\ tokenFile[procs[p].key].expiresAt > now) =>
                 /\ procs'[p].pc = "http"
                 /\ procs'[p].bearer = tokenFile[procs[p].key].accessToken
                 /\ procs'[p].posts = 0
                 /\ tokenFile' = tokenFile
          /\ (Api(p) /\ Leaves(p, "http") /\ procs[p].posts = 0) =>
                 /\ procs'[p].posts = 0
                 /\ procs'[p].bearer = procs[p].bearer
                 /\ tokenFile' = tokenFile]_vars

C5_Witness ==
    \E p \in Procs :
        /\ Api(p) /\ procs[p].pc = "done" /\ procs[p].result = "ok"
        /\ procs[p].posts = 0 /\ procs[p].bearer = "A0"

\* C6: an API call on a key with no record fails with the no-token error, sends
\* nothing to the token endpoint or the data API, and does not write the file.
C6_NoRecordNotAuthorized ==
    [][\A p \in Procs :
          (Api(p) /\ Leaves(p, "get") /\ ~HasRecord(procs[p].key)) =>
              /\ procs'[p].pc = "done"
              /\ procs'[p].result = "NoWhoopToken"
              /\ procs'[p].posts = 0
              /\ procs'[p].bearer = ""
              /\ tokenFile' = tokenFile]_vars


\* Provider-declared lifetime left on the access token handler p sends; a
\* bearer the provider never issued has none.
Remaining(ps, d, t, p) ==
    IF ps[p].bearer \in DOMAIN d THEN d[ps[p].bearer] - t ELSE 0

\* C7 as stated: every access token handed to an outbound call has at least
\* 60,000 ms of provider-declared lifetime left at that moment, stored or
\* freshly refreshed.
C7_AlwaysOneMinuteLeft ==
    [][\A p \in Procs :
          (Api(p) /\ procs[p].pc # "http" /\ procs'[p].pc = "http") =>
              Remaining(procs', declared', now', p) >= BUFFER_MS]_vars

\* C7 amended: a stored token that is handed to an outbound call has more than
\* 60,000 ms of provider-declared lifetime left at that moment; a freshly
\* refreshed token is handed over whatever its lifetime, with expires_in*1000 ms
\* less the time its commit took.
C7_StoredTokenOneMinuteLeft ==
    [][\A p \in Procs :
          /\ (Api(p) /\ Leaves(p, "get") /\ HasRecord(procs[p].key)
                /\ procs'[p].pc = "http") =>
                 Remaining(procs', declared', now', p) > BUFFER_MS
          /\ (Api(p) /\ Leaves(p, "set_write")) =>
                 /\ procs'[p].pc = "http"
                 /\ Remaining(procs', declared', now', p) =
                       procs[p].data.expires_in * MS_PER_SECOND - (now - procs[p].normAt)]_vars

C7_Witness ==
    \E p \in Procs, q \in Procs :
        /\ Api(p) /\ procs[p].pc = "http" /\ procs[p].posts = 0
        /\ Remaining(procs, declared, now, p) > 0
        /\ Api(q) /\ procs[q].pc = "http" /\ procs[q].posts = 1
        /\ Remaining(procs, declared, now, q) < BUFFER_MS

\* C8: every record committed by exchangeCode or refreshToken has expiresAt =
\* (time of normalization) + expires_in*1000 - 60000.
C8_CommittedExpiryBuffered ==
    [][\A p \in Procs :
          Leaves(p, "set_write") =>
              /\ HasRecord(procs[p].key)'
              /\ tokenFile'[procs[p].key].expiresAt =
                    procs[p].normAt + procs[p].data.expires_in * 1000 - 60000]_vars

C8_Witness ==
    \E p \in Procs, q \in Procs :
        /\ Cb(p) /\ procs[p].pc = "done" /\ procs[p].result \in {"ok", "redirect"}
        /\ Api(q) /\ procs[q].pc = "http" /\ procs[q].posts = 1
        /\ procs[p].key # procs[q].key
        /\ Lookup(tokenFile, procs[p].key) = procs[p].tokenSet
        /\ Lookup(tokenFile, procs[q].key) = procs[q].tokenSet
        /\ now > 0

\* C9: a successful refresh whose response has no refresh_token commits a record
\* that keeps the refresh token read for the key when the refresh began and
\* takes accessToken, scope, tokenType and expiry from the response; a response
\* with a refresh_token commits the new one.
C9_RefreshKeepsRefreshToken ==
    [][\A p \in Procs :
          (Api(p) /\ Leaves(p, "set_write")) =>
              /\ HasRecord(procs[p].key)'
              /\ tokenFile'[procs[p].key] =
                    [accessToken |-> procs[p].data.access_token,
                     refreshToken |-> IF procs[p].data.refresh_token = Undefined
                                      THEN procs[p].existing.refreshToken
                                      ELSE procs[p].data.refresh_token,
                     expiresAt |-> procs[p].normAt
                                     + procs[p].data.expires_in * 1000 - 60000,
                     scope |-> procs[p].data.scope,
                     tokenType |-> procs[p].data.token_type]]_vars

C9_Witness ==
    \E p \in Procs :
        /\ Api(p) /\ procs[p].pc = "http" /\ procs[p].posts = 1
        /\ HasRecord(procs[p].key)
        /\ tokenFile[procs[p].key] = procs[p].tokenSet
        /\ procs[p].tokenSet.accessToken = "A1"
        /\ procs[p].tokenSet.refreshToken = "R0"
        /\ procs[p].tokenSet.scope = "read:sleep read:cycles"

\* C10: for a key k the login route is asked for, with no record for k an API
\* call on k fails as not authorized; once a
\* callback for a state issued for k has exchanged its code, the record is
\* stored under k and no other key's record is touched, and an API call on k
\* made afterwards finds a record.
C10_AuthorizeThenResolve ==
    [][\A p \in Procs :
          /\ (Api(p) /\ Leaves(p, "get") /\ ~HasRecord(procs[p].key)
                /\ procs[p].key \in {req.key : req \in LoginRequests}) =>
                 procs'[p].result = "NoWhoopToken"
          /\ (Cb(p) /\ Leaves(p, "set_write")) =>
                 /\ procs[p].key = procs[p].entry.key
                 /\ Lookup(tokenFile', procs[p].key) = procs[p].tokenSet
                 /\ \A j \in Keys \ {procs[p].key} :
                       Lookup(tokenFile', j) = Lookup(tokenFile, j)
          /\ (Api(p) /\ Leaves(p, "get")
                /\ \E q \in Procs : Cb(q) /\ procs[q].pc = "done"
                                     /\ procs[q].result \in {"ok", "redirect"}
                                     /\ procs[q].key = procs[p].key) =>
                 procs'[p].result # "NoWhoopToken"]_vars

\* C16: an API call that ends because its refresh failed ends with an error
\* of another kind than an API call that ends because its data request
\* failed, both as thrown by the API client and as thrown on by the tool
\* handler.
C16_RefreshFailureDistinct ==
    \A p \in Procs, q \in Procs :
        (Api(p) /\ procs[p].result = "RefreshFailed"
           /\ Api(q) /\ procs[q].result = "HttpFailed") =>
            /\ thrown(procs[p].result) # thrown(procs[q].result)
            /\ toolError(thrown(procs[p].result)) # toolError(thrown(procs[q].result))

\* C17: a code exchange or refresh whose token request is rejected ends there,
\* after that one request, with the token file as it was; a handler that has
\* answered takes no further step; no handler sends a second token request;
\* and no handler writes the token file or reaches the store's set without a
\* successful token response.
C17_FailedTokenRequestNotRetried ==
    [][\A p \in Procs :
          /\ (Leaves(p, "r_post") /\ procs'[p].pc # "set_read") =>
                 /\ procs'[p].pc = "done"
                 /\ procs'[p].result = "RefreshFailed"
                 /\ procs'[p].posts = 1
                 /\ tokenFile' = tokenFile
          /\ (Leaves(p, "x_post") /\ procs'[p].pc # "set_read") =>
                 /\ procs'[p].pc = "done"
                 /\ procs'[p].result = "ExchangeFailed"
                 /\ procs'[p].posts = 1
                 /\ tokenFile' = tokenFile
          /\ (procs[p].pc \in {"r_post", "x_post"} /\ procs'[p].pc = "set_read") =>
                 procs'[p].data.ok
          /\ (procs[p].pc \in {"get", "r_get", "r_post", "x_post"}
                /\ procs'[p] # procs[p]) => tokenFile' = tokenFile
          /\ procs'[p].posts # procs[p].posts =>
                 procs[p].posts = 0 /\ procs'[p].posts = 1
          /\ procs[p].pc = "done" =>
                 /\ procs'[p].pc = "done"
                 /\ procs'[p].posts = procs[p].posts
                 /\ procs'[p].result = procs[p].result]_vars

C17_Witness ==
    \E p \in Procs, q \in Procs :
        /\ Cb(p) /\ procs[p].pc = "done" /\ procs[p].result = "ExchangeFailed"
        /\ procs[p].posts = 1 /\ procs[p].state \in DOMAIN pendingStates
        /\ Api(q) /\ procs[q].pc = "done" /\ procs[q].result = "RefreshFailed"
        /\ procs[q].posts = 1
        /\ HasRecord(procs[q].key) /\ tokenFile[procs[q].key].accessToken = "A0"


\* C25: an entry leaves the pending registry only in the step in which a
\* callback carrying its state completes a successful code exchange; an entry
\* in the registry is never altered; a callback whose exchange fails leaves
\* the registry as it is; and a state for which no callback has been made is
\* in the registry.
C25_RemovedOnlyOnSuccess ==
    [][/\ \A s \in DOMAIN pendingStates :
            IF s \in DOMAIN pendingStates'
            THEN pendingStates'[s] = pendingStates[s]
            ELSE \E p \in Procs :
                    /\ Cb(p) /\ procs[p].state = s /\ Leaves(p, "set_write")
                    /\ procs[p].data.ok
                    /\ procs'[p].result \in {"ok", "redirect"}
                    /\ pendingStates' = deleteState(pendingStates, s)
       /\ \A p \in Procs :
            (Cb(p) /\ Leaves(p, "x_post") /\ procs'[p].result = "ExchangeFailed") =>
                pendingStates' = pendingStates
       /\ \A s \in 1..(nextState' - 1) :
            (\A p \in Procs : ~(procs'[p].op = "callback" /\ procs'[p].state = s)) =>
                s \in DOMAIN pendingStates']_vars

C25_Witness ==
    \E p \in Procs, q \in Procs :
        /\ Cb(p) /\ procs[p].pc = "done" /\ procs[p].result = "ExchangeFailed"
        /\ Cb(q) /\ procs[q].pc = "done" /\ procs[q].result \in {"ok", "redirect"}
        /\ procs[p].state = procs[q].state
        /\ procs[p].state \notin DOMAIN pendingStates
        /\ DOMAIN pendingStates # {}


\* C26: a callback that arrives without a code or without a state, or with a
\* state that is not in the pending registry, is answered 400 at once, sends
\* no code exchange, and leaves the pending registry and the token file as
\* they are.
C26_BadCallbackRejected ==
    [][\A p \in Procs :
          (/\ procs[p].op = "idle" /\ procs'[p].op = "callback"
           /\ \/ ~procs'[p].code
              \/ procs'[p].state = 0
              \/ procs'[p].state \notin DOMAIN pendingStates) =>
              /\ procs'[p].pc = "done"
              /\ callbackStatus(procs'[p].result) = 400
              /\ procs'[p].posts = 0
              /\ procs'[p].tokenSet = Null
              /\ pendingStates' = pendingStates
              /\ tokenFile' = tokenFile]_vars

C26_Witness ==
    \E p \in Procs, q \in Procs :
        /\ Cb(p) /\ procs[p].pc = "done" /\ procs[p].result = "MissingCodeOrState"
        /\ ~procs[p].code /\ procs[p].state \in DOMAIN pendingStates
        /\ Cb(q) /\ procs[q].pc = "done" /\ procs[q].result = "UnknownState"
        /\ procs[q].code /\ procs[q].state # 0
        /\ procs[q].state \notin DOMAIN pendingStates


\* C27: in every interleaving, a refresh that commits a record built from a
\* response without refresh_token commits the refresh token that is stored
\* under its key at that moment (so a refresh token committed under the key
\* while the refresh was waiting for the provider is kept).
C27_RefreshTokenNotRolledBack ==
    [][\A p \in Procs :
          (Api(p) /\ Leaves(p, "set_write")
             /\ procs[p].data.refresh_token = Undefined) =>
              /\ HasRecord(procs[p].key)
              /\ HasRecord(procs[p].key)'
              /\ tokenFile'[procs[p].key].refreshToken =
                    tokenFile[procs[p].key].refreshToken]_vars


\* ---------------------------------------------------------- session claims

\* A request arrives in slot r (the slot held no request, or an old answer).
Arrives(r) == reqs[r].pc \in {"idle", "done"} /\ reqs'[r] # reqs[r]
\* ... and gets past the API-key check.
Admitted(r) == Arrives(r) /\ reqs'[r].status # 401
Registered(map) == {map[s] : s \in DOMAIN map}

\* C11: past the API-key check, a POST that is an initialization and has no
\* session id gets a newly constructed transport, and when that transport
\* accepts the initialization it is registered under an id that was not in the
\* map; an entry of the map never changes, and a request bearing an id of the
\* map is handed to the transport registered under it; a request bearing an id
\* that is not in the map is answered 404 and changes neither the map nor the
\* transports.
C11_SessionRouting ==
    [][/\ \A r \in Slots :
            /\ (Admitted(r) /\ reqs'[r].method = "POST" /\ reqs'[r].sid = 0
                  /\ reqs'[r].init) =>
                   /\ reqs'[r].pc = "connect"
                   /\ conns[reqs'[r].transport] = "none"
                   /\ conns'[reqs'[r].transport] = "created"
            /\ (reqs[r].pc = "handle_init" /\ reqs'[r].status = 200) =>
                   \E s \in DOMAIN transports' \ DOMAIN transports :
                       transports'[s] = reqs[r].transport
            /\ (Admitted(r) /\ reqs'[r].sid \in DOMAIN transports) =>
                   /\ reqs'[r].pc = "handle"
                   /\ reqs'[r].transport = transports[reqs'[r].sid]
            /\ (Admitted(r) /\ reqs'[r].sid # 0
                  /\ reqs'[r].sid \notin DOMAIN transports) =>
                   /\ reqs'[r].pc = "done"
                   /\ reqs'[r].status = 404
                   /\ transports' = transports
                   /\ conns' = conns
       /\ \A s \in DOMAIN transports :
            s \in DOMAIN transports' /\ transports'[s] = transports[s]]_vars

C11_Witness ==
    \E r \in Slots, q \in Slots :
        /\ Cardinality(DOMAIN transports) = 2
        /\ reqs[r].pc = "done" /\ reqs[r].status = 200 /\ reqs[r].sid = 2
        /\ reqs[r].transport = transports[2]
        /\ reqs[q].pc = "done" /\ reqs[q].status = 404 /\ reqs[q].sid = ForgedSession

\* C12: past the API-key check, a request without a session id that is not an
\* initialization POST (a POST that is no initialization, and every GET) is
\* answered 400 "Missing MCP session ID", constructs no transport and leaves
\* the session map unchanged.
C12_MissingSessionRejected ==
    [][\A r \in Slots :
          (Admitted(r) /\ reqs'[r].sid = 0
             /\ ~(reqs'[r].method = "POST" /\ reqs'[r].init)) =>
              /\ reqs'[r].pc = "done"
              /\ reqs'[r].status = 400
              /\ reqs'[r].transport = 0
              /\ conns' = conns
              /\ transports' = transports]_vars

C12_Witness ==
    \E r \in Slots, q \in Slots :
        /\ reqs[r].pc = "done" /\ reqs[r].method = "GET" /\ reqs[r].sid = 0
        /\ reqs[r].status = 400
        /\ reqs[q].pc = "done" /\ reqs[q].method = "POST" /\ reqs[q].sid = 0
        /\ ~reqs[q].init /\ reqs[q].status = 400
        /\ transports # NoTransports

\* C13: the session map never holds an entry for a transport that has closed
\* (so a request bearing that session's id is answered as an unknown session).
C13_ClosedSessionRemoved ==
    \A s \in DOMAIN transports : conns[transports[s]] # "closed"

\* C14: the session map gains an entry only in the step in which a transport
\* accepts its initialization (onsessioninitialized), the entry being that
\* transport under one new id; a transport whose connect or first
\* handleRequest failed before that is never in the map.
C14_RegisteredOnlyOnceInitialized ==
    [][/\ (transports' # transports) =>
            \E r \in Slots :
                /\ reqs[r].pc = "handle_init"
                /\ conns'[reqs[r].transport] = "initialized"
                /\ \E s \in DOMAIN transports' \ DOMAIN transports :
                      transports' = setTransport(transports, s, reqs[r].transport)
       /\ \A t \in Registered(transports') : conns'[t] \in {"initialized", "closed"}
       /\ \A t \in Transports :
            conns'[t] \in {"created", "connected", "failed"} =>
                t \notin Registered(transports')]_vars

C14_Witness ==
    \E t \in Transports, u \in Transports :
        /\ conns[t] = "failed" /\ t \notin Registered(transports)
        /\ conns[u] = "initialized" /\ u \in Registered(transports)

\* C15: no transport is registered under two session ids, and a request
\* bearing a session id that has been handed to a transport was handed to the
\* transport registered under that id and under no other.
C15_TransportsNotShared ==
    /\ \A a \in DOMAIN transports, b \in DOMAIN transports :
          transports[a] = transports[b] => a = b
    /\ \A r \in Slots :
          (reqs[r].sid # 0 /\ reqs[r].transport # 0) =>
              /\ reqs[r].sid \in DOMAIN transports
              /\ \A b \in DOMAIN transports :
                    (transports[b] = reqs[r].transport) <=> (b = reqs[r].sid)

C15_Witness ==
    /\ Cardinality(DOMAIN transports) = 2
    /\ reqs[1].pc = "handle" /\ reqs[2].pc = "handle"
    /\ reqs[1].sid # reqs[2].sid
    /\ reqs[1].transport # reqs[2].transport

\* ------------------------------------------------------------ store claims
\* The record the backend holds under a key: the own property of the parsed
\* document, or the row of the table; Null when there is none.
Stored(d, path, rws, prefix, key) ==
    IF backend = "file"
    THEN IF key \in DOMAIN readFile(d, path).contents
         THEN readFile(d, path).contents[key] ELSE Null
    ELSE IF mapKey(prefix, key) \in DOMAIN rws THEN rws[mapKey(prefix, key)] ELSE Null
Readable == backend = "file" => readFile(disk, absolutePath).error = ""
NoRecord(key) == Readable /\ Stored(disk, absolutePath, rows, keyPrefix, key) = Null
OrdinaryKeys == Keys \ {"__proto__"}

\* C18: refreshToken(k), called when the store holds no record under k, fails
\* with 'No stored WHOOP refresh token' (or, on the remote backend, with the
\* error of the lookup itself), sends no POST and writes nothing to the store.
C18_Step(keys) ==
    (lastOp'.op = "refresh" /\ lastOp'.key \in keys /\ NoRecord(lastOp'.key)) =>
        /\ lastOp'.error \in {"NoStoredRefreshToken", "SupabaseReadFailed"}
        /\ backend = "file" => lastOp'.error = "NoStoredRefreshToken"
        /\ lastOp'.posts = 0
        /\ UNCHANGED <<absolutePath, disk, rows>>
C18_RefreshWithoutRecord == [][C18_Step(Keys)]_vars
\* The same for the keys that are not "__proto__".
C18_OrdinaryKeys == [][C18_Step(OrdinaryKeys)]_vars

\* C19: with no other call in progress, a get(k) that follows a completed
\* set(k, r) returns r, for every key and record and on both backends.
C19_Step(keys) ==
    (/\ lastOp.op = "set" /\ lastOp.error = "" /\ lastOp.key \in keys
     /\ lastOp'.op = "get" /\ lastOp'.error = "" /\ lastOp'.key = lastOp.key) =>
        lastOp'.result = lastOp.arg
C19_SetThenGet == [][C19_Step(Keys)]_vars
\* The same for the keys that are not "__proto__".
C19_OrdinaryKeys == [][C19_Step(OrdinaryKeys)]_vars

\* C20: a get(k) that follows a completed clear(k) returns absent; and a
\* clear(k) of a key with no record, the token file missing or not, ends
\* without error wherever the storage takes the write, and leaves the record
\* of every key as it was.
C20_Step(keys) ==
    /\ (/\ lastOp.op = "clear" /\ lastOp.error = "" /\ lastOp.key \in keys
        /\ lastOp'.op = "get" /\ lastOp'.error = "" /\ lastOp'.key = lastOp.key) =>
           lastOp'.result = Null
    /\ (lastOp'.op = "clear" /\ lastOp'.key \in keys /\ NoRecord(lastOp'.key)) =>
           /\ lastOp'.error \in {"", "WriteFailed", "MkdirFailed", "SupabaseClearFailed"}
           /\ lastOp'.error = "WriteFailed" => dirMode = "readonly"
           /\ lastOp'.error = "MkdirFailed" => dirMode = "unusable"
           /\ \A j \in Keys :
                 Stored(disk', absolutePath', rows', keyPrefix, j) =
                     Stored(disk, absolutePath, rows, keyPrefix, j)
C20_ClearThenGet == [][C20_Step(Keys)]_vars
\* The same for the keys that are not "__proto__".
C20_OrdinaryKeys == [][C20_Step(OrdinaryKeys)]_vars

\* The access tokens of the records held under the keys other than key.
TokensOfOthers(key) ==
    {Stored(disk, absolutePath, rows, keyPrefix, j).accessToken :
        j \in {i \in Keys \ {key} : Stored(disk, absolutePath, rows, keyPrefix, i) # Null}}

\* C21: with one call at a time, set(k), clear(k), exchangeCode(code, k),
\* refreshToken(k) and an API call on k leave the record of every other key as
\* it was; the bearer an API call on k sends is the access token of the record
\* of k, as stored or as just refreshed, and the record it refreshes is stored
\* under k.
C21_KeysAreIndependent ==
    [][/\ lastOp'.op \in {"set", "clear", "exchange", "refresh", "api"} =>
            \A j \in Keys \ {lastOp'.key} :
                Stored(disk', absolutePath', rows', keyPrefix, j) =
                    Stored(disk, absolutePath, rows, keyPrefix, j)
       /\ (lastOp'.op = "api" /\ lastOp'.bearer \in TokensOfOthers(lastOp'.key)) =>
            /\ Stored(disk, absolutePath, rows, keyPrefix, lastOp'.key) # Null
            /\ lastOp'.bearer \in
                  {Stored(disk, absolutePath, rows, keyPrefix, lastOp'.key).accessToken,
                   Stored(disk', absolutePath', rows', keyPrefix, lastOp'.key).accessToken}
       /\ (lastOp'.op = "api" /\ lastOp'.result # Null) =>
            /\ Stored(disk', absolutePath', rows', keyPrefix, lastOp'.key) = lastOp'.result
            /\ lastOp'.bearer = lastOp'.result.accessToken]_vars

C21_Witness ==
    /\ lastOp.op = "api" /\ lastOp.key = "user123" /\ lastOp.posts = 1
    /\ lastOp.error = "" /\ lastOp.bearer = "A1"
    /\ Stored(disk, absolutePath, rows, keyPrefix, "user123") = lastOp.result
    /\ Stored(disk, absolutePath, rows, keyPrefix, "default") # Null
    /\ Stored(disk, absolutePath, rows, keyPrefix, "default").accessToken = "A0"

\* C22: a get on a key with no record, the token file missing or not, returns
\* absent and raises no error (a failed query of the remote table aside); a
\* get that cannot read or parse the token file raises an error; and absent is
\* returned only when there is no record under the key.
C22_Step(keys) ==
    (lastOp'.op = "get" /\ lastOp'.key \in keys) =>
        /\ NoRecord(lastOp'.key) =>
              /\ lastOp'.error \in {"", "SupabaseReadFailed"}
              /\ backend = "file" => lastOp'.error = ""
              /\ lastOp'.error = "" => lastOp'.result = Null
        /\ ~Readable => lastOp'.error = "ReadFailed"
        /\ (lastOp'.error = "" /\ lastOp'.result = Null) => NoRecord(lastOp'.key)
C22_AbsentIsNotAnError == [][C22_Step(Keys)]_vars
\* The same for the keys that are not "__proto__".
C22_OrdinaryKeys == [][C22_Step(OrdinaryKeys)]_vars

\* C23: on the file backend a set that finds the configured directory not
\* writable (modes: it cannot be created, or it exists and takes no file)
\* succeeds, switches the store to the fallback file, leaves the configured
\* file alone and is read back; once switched the store stays switched, every
\* later set writes the fallback file and succeeds, and every later get reads
\* it.  (Read back is stated for the keys other than "__proto__".)
C23_Step(modes) ==
    /\ (/\ lastOp'.op = "set" /\ backend = "file" /\ Readable
        /\ absolutePath = "configured" /\ dirMode \in modes) =>
           /\ lastOp'.error = ""
           /\ absolutePath' = "fallback"
           /\ disk'["configured"] = disk["configured"]
           /\ lastOp'.key \in OrdinaryKeys =>
                 fileGet(disk', absolutePath', lastOp'.key).result = lastOp'.arg
    /\ absolutePath = "fallback" =>
           /\ absolutePath' = "fallback"
           /\ disk'["configured"] = disk["configured"]
           /\ lastOp'.op = "set" =>
                 /\ lastOp'.error = ""
                 /\ lastOp'.key \in OrdinaryKeys =>
                       fileGet(disk', "fallback", lastOp'.key).result = lastOp'.arg
           /\ lastOp'.op = "get" =>
                 /\ lastOp'.error = ""
                 /\ lastOp'.result = fileGet(disk, "fallback", lastOp'.key).result
C23_FallbackWhenNotWritable ==
    [][C23_Step({"uncreatable", "readonly", "unusable"})]_vars
\* The same for a directory whose mkdir fails with ENOENT, EROFS or EACCES.
C23_FallbackWhenMkdirRefused == [][C23_Step({"uncreatable"})]_vars

\* ------------------------------------------------------------ API-key claim

\* C24: with MCP_API_KEY configured, a POST or GET on /sse whose provided key
\* is not the configured key is answered 401 at once, gets no transport, and
\* changes neither the transports nor the session map, and a request whose
\* provided key is the configured key is not answered 401; with MCP_API_KEY
\* not configured no request is answered 401.
C24_ApiKeyGate ==
    [][\A r \in Slots :
          Arrives(r) =>
              LET given == IF reqs'[r].status = 401 THEN providedKey(reqs'[r].headers)
                           ELSE reqs'[r].provided
              IN  /\ apiKey = Undefined => reqs'[r].status # 401
                  /\ (apiKey # Undefined /\ given # apiKey) =>
                         /\ reqs'[r].status = 401
                         /\ reqs'[r].pc = "done"
                         /\ reqs'[r].transport = 0
                         /\ conns' = conns
                         /\ transports' = transports
                  /\ (apiKey # Undefined /\ given = apiKey) =>
                         reqs'[r].status # 401]_vars

C24_Witness ==
    \E r \in Slots, q \in Slots :
        /\ apiKey = "secret"
        /\ reqs[r].pc = "done" /\ reqs[r].status = 401 /\ reqs[r].method = "POST"
        /\ reqs[r].headers = [authorization |-> "wrong", xApiKey |-> "secret"]
        /\ reqs[r].sid \in DOMAIN transports /\ reqs[r].transport = 0
        /\ reqs[q].pc = "handle" /\ reqs[q].method = "GET" /\ reqs[q].provided = "secret"

\* --------------------------------------------------------- metrics claim

\* The offsets that are well formed among the ones drawn, with their shift in
\* seconds, and the day number of an instant moved by such a shift.
ShiftOf == {<<Plus0530, 19800>>, <<Minus0800, -28800>>}
LocalDay(time, shift) == (time + shift) \div 86400
\* The record has a well-formed offset, and its end (its start when it has no
\* end) falls on the reference's day under that offset.
IsOfToday(record) ==
    \E o \in ShiftOf :
        /\ record.timezone_offset = Present(o[1])
        /\ LET target == IF record.end # Absent THEN record.end[1] ELSE record.start
           IN  /\ target.iso
               /\ LocalDay(target.time, o[2]) = LocalDay(reference, o[2])
OfToday(records) == {i \in DOMAIN records : IsOfToday(records[i])}
ChosenFrom(records) ==
    IF records = << >> THEN Absent
    ELSE IF OfToday(records) = {} THEN Present(records[1])
    ELSE Present(records[CHOOSE i \in OfToday(records) :
                            \A j \in OfToday(records) : i <= j])

C28_WitnessSkipped ==
    /\ metrics.asked
    /\ Len(sleepRecords) = 2
    /\ sleepRecords[1].timezone_offset = Absent
    /\ sleepRecord = Present(sleepRecords[2])
\* Both lists are empty and every metric is null.
C28_WitnessEmpty ==
    /\ metrics.asked
    /\ sleepRecords = << >>
    /\ cycleRecords = << >>
    /\ metrics = [NotAsked EXCEPT !.asked = TRUE]
====
